---- MODULE Spec2Model ----
(***************************************************************************)
(* Model of the game server's shared-state core (server/server.js): the    *)
(* two sprite Maps (active "sprites", archived "inactiveSprites"), the     *)
(* socket admission flow, and the spriteData / disconnect handlers.        *)
(*                                                                         *)
(* JavaScript values are tagged records, a JavaScript object is a function *)
(* from the keys it has to values, and a Map is a function from the keys   *)
(* it holds to its entries.                                                *)
(***************************************************************************)
EXTENDS Integers, Sequences, FiniteSets, TLC

(***************************************************************************)
(* Bounds of the model.                                                    *)
(***************************************************************************)
MaxAdmissions == 2   \* admissions and Users queries in flight, over all sockets

(***************************************************************************)
(* JavaScript values.                                                      *)
(***************************************************************************)
Num(n) == [t |-> "number", v |-> n]
Str(s) == [t |-> "string", v |-> s]
Null == [t |-> "null"]
Undefined == [t |-> "undefined"]

\* ToBoolean of the values the model uses: undefined, null, 0 and "" are falsy.
Truthy(v) == /\ v # Undefined
             /\ v # Null
             /\ v # Num(0)
             /\ v # Str("")

\* o[k] of a JavaScript object: undefined when the key is absent.
Get(o, k) == IF k \in DOMAIN o THEN o[k] ELSE Undefined

\* new Map()
EmptyMap == [k \in {} |-> Undefined]
\* Map.prototype.get / set
MapGet(m, k) == IF k \in DOMAIN m THEN m[k] ELSE Undefined
MapSet(m, k, v) == [j \in (DOMAIN m) \cup {k} |-> IF j = k THEN v ELSE m[j]]

(***************************************************************************)
(* Inputs.                                                                 *)
(***************************************************************************)
Conns == {"c1", "c2"}
Identities == {Str("u1"), Str("u2")}
SpriteIds == Identities

\* The token a client submits: garbage, or a token signed for an identity.
\* The client behind c1 has an account u1; the client behind c2 holds tokens
\* of both accounts.
BadToken == [t |-> "bad"]
Jwt(i) == [t |-> "jwt", id |-> i]
Accounts == [c \in Conns |-> IF c = "c1" THEN {Str("u1")} ELSE Identities]
Tokens(c) == {BadToken} \cup {Jwt(i) : i \in Accounts[c]}

\* Outcome of the Users query for a verified token.
LookupOutcomes == {"found", "missing", "error"}

\* chat and command payloads.
ChatTexts == {[text |-> Str("hi")]}
Commands == {[command |-> Str("dance")]}

\* spriteData payloads: an id plus one of a few field combinations.
Shapes ==
  { [x |-> Num(10), y |-> Num(20)],
    [x |-> Num(10), y |-> Num(20), scene |-> Str("S"), sprite |-> Str("P"),
     hp |-> Num(10), owner |-> Str("u1")],
    [x |-> Num(0), y |-> Num(20), scene |-> Str("S"), sprite |-> Str("P")],
    [x |-> Null, y |-> Num(20), scene |-> Str("S"), sprite |-> Str("P")] }
WithId(o, i) == [k \in (DOMAIN o) \cup {"id"} |-> IF k = "id" THEN i ELSE o[k]]
Updates == {WithId(s, i) : s \in Shapes, i \in SpriteIds}

VARIABLES
  sprites,          \* the active Map
  inactiveSprites,  \* the archived Map
  conn,             \* per socket: open, listeners, lookups, kick
  sent,             \* emissions of the last event, in order
  saved,            \* Maps handed to persistentData.writeMap by the last event
  ev,               \* the last event: its kind, its socket, and what came of it
  left,             \* per identity: what its disconnects archived since its last admission
  recording,        \* whether the behaviour keeps the history variable left
  file,             \* persistentData/sprites.json5
  writes,           \* the writeMap calls that have not completed yet
  proc,             \* where the server process is, and its exit status
  users,            \* the rows that the sign-ups have inserted into Users
  signups           \* per POST /api/sign-up request: where it is, and its answer

vars == <<sprites, inactiveSprites, conn, sent, saved, ev, left, recording,
          file, writes, proc, users, signups>>

(***************************************************************************)
(* Emissions.                                                              *)
(***************************************************************************)
\* The sockets that are connected.
Live(cn) == {d \in Conns : cn[d].open}

\* socket.emit: delivered only while the socket is connected.
Emit(live, c, kind, body) ==
  [to |-> {c} \cap live, kind |-> kind, body |-> body]

\* socket.broadcast.emit: every connected socket but this one.
Broadcast(live, c, kind, body) ==
  [to |-> live \ {c}, kind |-> kind, body |-> body]

\* jsonMapStringify.replacer: a Map goes on the wire as its list of entries.
replacer(m) == [dataType |-> "Map", value |-> {<<k, m[k]>> : k \in DOMAIN m}]

\* The reviver of the client: the entries back into a Map.
reviver(w) ==
  [k \in {e[1] : e \in w.value} |-> (CHOOSE e \in w.value : e[1] = k)[2]]

(***************************************************************************)
(* The handlers.  A handler works on the record                            *)
(*   [sprites, inactiveSprites, sent, saved, left, out]                    *)
(* so that the listeners of one event run one after the other.             *)
(***************************************************************************)
\* A merge in the wrong direction: the existing sprite's values win.
FillInExistingFirst(data, existingSprite) ==
  IF existingSprite = Undefined
    THEN data
    ELSE [k \in (DOMAIN data) \cup (DOMAIN existingSprite) |->
            IF k \in DOMAIN existingSprite THEN existingSprite[k] ELSE data[k]]

\* server.js:402-411: a copy of the incoming data, filled in from the
\* existing sprite for every key the incoming data does not have.
FillIn(data, existingSprite) ==
  IF existingSprite = Undefined
    THEN data
    ELSE [k \in (DOMAIN data) \cup (DOMAIN existingSprite) |->
            IF k \in DOMAIN data THEN data[k] ELSE existingSprite[k]]

\* The owner set only when the incoming data names none.
SetOwnerIfMissing(o, id) ==
  [k \in (DOMAIN o) \cup {"owner"} |-> IF k \in DOMAIN o THEN o[k] ELSE id]

\* server.js:414: newSpriteData.owner = id
SetOwner(o, id) ==
  [k \in (DOMAIN o) \cup {"owner"} |-> IF k = "owner" THEN id ELSE o[k]]

\* A check of the position alone.
HasRequiredPosition(o) == /\ Truthy(Get(o, "x"))
                          /\ Truthy(Get(o, "y"))

\* server.js:418-423: the required data of a sprite.
HasRequired(o) == /\ Truthy(Get(o, "x"))
                  /\ Truthy(Get(o, "y"))
                  /\ Truthy(Get(o, "scene"))
                  /\ Truthy(Get(o, "sprite"))

\* No ownership check at all.
MayUpdateAnyone(existingSprite, id) == TRUE

\* server.js:401: you cannot update other people's sprites.
MayUpdate(existingSprite, id) ==
  \/ existingSprite = Undefined
  \/ Get(existingSprite, "owner") = id

\* JSON.stringify(sprites, jsonMapStringify.replacer)
Snapshot(m) == replacer(m)

\* A handler that serializes the Map before it stores the update.
spriteDataHandlerStale(st, live, c, id, data) ==
  LET existingSprite == MapGet(st.sprites, Get(data, "id"))
      newSpriteData == SetOwner(FillIn(data, existingSprite), id)
      stored == IF HasRequired(newSpriteData)
                  THEN MapSet(st.sprites, Get(data, "id"), newSpriteData)
                  ELSE st.sprites
  IN IF MayUpdate(existingSprite, id)
       THEN [st EXCEPT
               !.sprites = stored,
               !.sent = st.sent \o
                  << Broadcast(live, c, "sprites", Snapshot(st.sprites)),
                     Emit(live, c, "sprites", Snapshot(st.sprites)) >>,
               !.out = Append(st.out, IF HasRequired(newSpriteData)
                                        THEN "stored" ELSE "discarded")]
       ELSE [st EXCEPT !.out = Append(st.out, "denied")]

\* A handler that broadcasts the snapshot and forgets that the broadcast
\* skips the sender.
spriteDataHandlerNoEcho(st, live, c, id, data) ==
  LET existingSprite == MapGet(st.sprites, Get(data, "id"))
      newSpriteData == SetOwner(FillIn(data, existingSprite), id)
      stored == IF HasRequired(newSpriteData)
                  THEN MapSet(st.sprites, Get(data, "id"), newSpriteData)
                  ELSE st.sprites
  IN IF MayUpdate(existingSprite, id)
       THEN [st EXCEPT
               !.sprites = stored,
               !.sent = st.sent \o
                  << Broadcast(live, c, "sprites", Snapshot(stored)) >>,
               !.out = Append(st.out, IF HasRequired(newSpriteData)
                                        THEN "stored" ELSE "discarded")]
       ELSE [st EXCEPT !.out = Append(st.out, "denied")]

\* socket.on("spriteData") of a socket admitted as id (server.js:377-440).
spriteDataHandler(st, live, c, id, data) ==
  LET existingSprite == MapGet(st.sprites, Get(data, "id"))
      newSpriteData == SetOwner(FillIn(data, existingSprite), id)
      stored == IF HasRequired(newSpriteData)
                  THEN MapSet(st.sprites, Get(data, "id"), newSpriteData)
                  ELSE st.sprites
  IN IF MayUpdate(existingSprite, id)
       THEN [st EXCEPT
               !.sprites = stored,
               !.sent = st.sent \o
                  << Broadcast(live, c, "sprites", Snapshot(stored)),
                     Emit(live, c, "sprites", Snapshot(stored)) >>,
               !.out = Append(st.out, IF HasRequired(newSpriteData)
                                        THEN "stored" ELSE "discarded")]
       ELSE [st EXCEPT !.out = Append(st.out, "denied")]

\* decoded.name: the model names an account by its id.
NameOf(id) == id.v

\* A chat handler that lets the payload name the speaker.
chatHandlerNamedByPayload(st, live, c, id, data) ==
  [st EXCEPT
     !.sent = Append(st.sent,
                     Broadcast(live, c, "chat",
                               [name |-> IF "name" \in DOMAIN data
                                           THEN data.name.v ELSE NameOf(id),
                                content |-> Get(data, "text")]))]

\* socket.on("chat") of a socket admitted as id (server.js:368-375): the text
\* goes, under the name of the token, to every other connected socket.
chatHandler(st, live, c, id, data) ==
  [st EXCEPT
     !.sent = Append(st.sent,
                     Broadcast(live, c, "chat",
                               [name |-> NameOf(id), content |-> Get(data, "text")]))]

\* A command handler that answers the sender.
commandHandlerAnswering(st, live, c, id, data) ==
  [st EXCEPT !.sent = Append(st.sent, Emit(live, c, "command", data))]

\* socket.on("command") of a socket admitted as id (server.js:442-446): the
\* data is logged and nothing else happens.
commandHandler(st, live, c, id, data) == st

\* The entries of a Map whose sprite has the given owner, and the others.
OwnedBy(m, id) == {k \in DOMAIN m : Get(m[k], "owner") = id}
Restrict(m, ks) == [k \in ks |-> m[k]]

\* A move that forgets the delete: the entries stay in src as well.
MoveOwnedCopy(src, dst, id) ==
  << src,
     [k \in (DOMAIN dst) \cup OwnedBy(src, id) |->
        IF k \in OwnedBy(src, id) THEN src[k] ELSE dst[k]] >>

\* src.forEach: every entry owned by id is set into dst and deleted from src
\* (server.js:339-344 and 455-460).  The result is <<src, dst>>.
MoveOwned(src, dst, id) ==
  << Restrict(src, (DOMAIN src) \ OwnedBy(src, id)),
     [k \in (DOMAIN dst) \cup OwnedBy(src, id) |->
        IF k \in OwnedBy(src, id) THEN src[k] ELSE dst[k]] >>

\* A save in which the archived sprite wins over the active one of its id.
spritesToSaveInactiveLast(act, inact) ==
  [k \in (DOMAIN inact) \cup (DOMAIN act) |->
     IF k \in DOMAIN inact THEN inact[k] ELSE act[k]]

\* saveGameStateToDisk (server.js:91-105): the Map handed to writeMap.
spritesToSave(act, inact) ==
  [k \in (DOMAIN inact) \cup (DOMAIN act) |->
     IF k \in DOMAIN act THEN act[k] ELSE inact[k]]

\* The chat line of a join or a leave: the name of the token and the text.
Announce(id, text) == [content |-> <<NameOf(id), text>>]

\* A disconnect handler that broadcasts from inside the archive loop, when
\* only the player's own sprite has been moved.
disconnectHandlerMidLoop(st, live, c, id) ==
  LET moved == MoveOwned(st.sprites, st.inactiveSprites, id)
      first == OwnedBy(st.sprites, id) \cap {id}
  IN [st EXCEPT
        !.sprites = moved[1],
        !.inactiveSprites = moved[2],
        !.sent = st.sent \o
           << Broadcast(live, c, "chat", Announce(id, " has left the game. :'(")),
              Broadcast(live, c, "sprites",
                        Snapshot(Restrict(st.sprites, (DOMAIN st.sprites) \ first))) >>,
        !.saved = Append(st.saved, spritesToSave(moved[1], moved[2])),
        !.left = [st.left EXCEPT ![id] =
                    [k \in (DOMAIN @) \cup OwnedBy(st.sprites, id) |->
                       IF k \in OwnedBy(st.sprites, id) THEN st.sprites[k] ELSE @[k]]]]

\* A disconnect handler that archives the player's own sprite only.
disconnectHandlerPlayerOnly(st, live, c, id) ==
  LET ks == OwnedBy(st.sprites, id) \cap {id}
      act == Restrict(st.sprites, (DOMAIN st.sprites) \ ks)
      inact == [k \in (DOMAIN st.inactiveSprites) \cup ks |->
                  IF k \in ks THEN st.sprites[k] ELSE st.inactiveSprites[k]]
  IN [st EXCEPT
        !.sprites = act,
        !.inactiveSprites = inact,
        !.sent = st.sent \o
           << Broadcast(live, c, "chat", Announce(id, " has left the game. :'(")),
              Broadcast(live, c, "sprites", Snapshot(act)) >>,
        !.saved = Append(st.saved, spritesToSave(act, inact)),
        !.left = [st.left EXCEPT ![id] =
                    [k \in (DOMAIN @) \cup ks |->
                       IF k \in ks THEN st.sprites[k] ELSE @[k]]]]

\* A disconnect handler that broadcasts the sprites before it archives them.
disconnectHandlerStale(st, live, c, id) ==
  LET moved == MoveOwned(st.sprites, st.inactiveSprites, id)
  IN [st EXCEPT
        !.sprites = moved[1],
        !.inactiveSprites = moved[2],
        !.sent = st.sent \o
           << Broadcast(live, c, "chat", Announce(id, " has left the game. :'(")),
              Broadcast(live, c, "sprites", Snapshot(st.sprites)) >>,
        !.saved = Append(st.saved, spritesToSave(moved[1], moved[2])),
        !.left = [st.left EXCEPT ![id] =
                    [k \in (DOMAIN @) \cup OwnedBy(st.sprites, id) |->
                       IF k \in OwnedBy(st.sprites, id) THEN st.sprites[k] ELSE @[k]]]]

\* A disconnect handler that saves the sprites of the players still there.
disconnectHandlerSaveActive(st, live, c, id) ==
  LET moved == MoveOwned(st.sprites, st.inactiveSprites, id)
  IN [st EXCEPT
        !.sprites = moved[1],
        !.inactiveSprites = moved[2],
        !.sent = st.sent \o
           << Broadcast(live, c, "chat", Announce(id, " has left the game. :'(")),
              Broadcast(live, c, "sprites", Snapshot(moved[1])) >>,
        !.saved = Append(st.saved, spritesToSave(moved[1], EmptyMap)),
        !.left = [st.left EXCEPT ![id] =
                    [k \in (DOMAIN @) \cup OwnedBy(st.sprites, id) |->
                       IF k \in OwnedBy(st.sprites, id) THEN st.sprites[k] ELSE @[k]]]]

\* socket.on("disconnect") of a socket admitted as id (server.js:448-473).
disconnectHandler(st, live, c, id) ==
  LET moved == MoveOwned(st.sprites, st.inactiveSprites, id)
  IN [st EXCEPT
        !.sprites = moved[1],
        !.inactiveSprites = moved[2],
        !.sent = st.sent \o
           << Broadcast(live, c, "chat", Announce(id, " has left the game. :'(")),
              Broadcast(live, c, "sprites", Snapshot(moved[1])) >>,
        !.saved = Append(st.saved, spritesToSave(moved[1], moved[2])),
        !.left = [st.left EXCEPT ![id] =
                    [k \in (DOMAIN @) \cup OwnedBy(st.sprites, id) |->
                       IF k \in OwnedBy(st.sprites, id) THEN st.sprites[k] ELSE @[k]]]]

\* server.js:348-355: the sprite fabricated for a player that has none.
DefaultSprite(id) ==
  [id |-> id, owner |-> id, x |-> Num(0), y |-> Num(0),
   scene |-> Str("LoruleH8"), sprite |-> Str("bloomby")]

\* A default sprite set whether or not the player has one.
WithDefaultAlways(m, id) == MapSet(m, id, DefaultSprite(id))

\* server.js:347-356
WithDefault(m, id) ==
  IF MapGet(m, id) = Undefined THEN MapSet(m, id, DefaultSprite(id)) ELSE m

\* An admission that sends the snapshot before the welcome and the identity.
admitSnapshotFirst(st, live, c, id) ==
  LET moved == MoveOwned(st.inactiveSprites, st.sprites, id)
      resolved == WithDefault(moved[2], id)
  IN [st EXCEPT
        !.sprites = resolved,
        !.inactiveSprites = moved[1],
        !.sent = st.sent \o
           << Emit(live, c, "sprites", Snapshot(resolved)),
              Emit(live, c, "welcome", Undefined),
              Emit(live, c, "identity", [id |-> id]),
              Broadcast(live, c, "chat", Announce(id, " has joined the game!")) >>,
        !.left = [st.left EXCEPT ![id] = EmptyMap]]

\* The admission of a socket whose token and user row check out
\* (server.js:314-366).
admit(st, live, c, id) ==
  LET moved == MoveOwned(st.inactiveSprites, st.sprites, id)
      resolved == WithDefault(moved[2], id)
  IN [st EXCEPT
        !.sprites = resolved,
        !.inactiveSprites = moved[1],
        !.sent = st.sent \o
           << Emit(live, c, "welcome", Undefined),
              Emit(live, c, "identity", [id |-> id]),
              Emit(live, c, "sprites", Snapshot(resolved)),
              Broadcast(live, c, "chat", Announce(id, " has joined the game!")) >>,
        !.left = [st.left EXCEPT ![id] = EmptyMap]]

\* The listeners of one event run in the order they were registered.
RECURSIVE spriteDataAll(_, _, _, _, _)
spriteDataAll(st, live, c, ids, data) ==
  IF ids = << >>
    THEN st
    ELSE spriteDataAll(spriteDataHandler(st, live, c, Head(ids), data),
                       live, c, Tail(ids), data)

RECURSIVE chatAll(_, _, _, _, _)
chatAll(st, live, c, ids, data) ==
  IF ids = << >>
    THEN st
    ELSE chatAll(chatHandler(st, live, c, Head(ids), data),
                 live, c, Tail(ids), data)

RECURSIVE commandAll(_, _, _, _, _)
commandAll(st, live, c, ids, data) ==
  IF ids = << >>
    THEN st
    ELSE commandAll(commandHandler(st, live, c, Head(ids), data),
                    live, c, Tail(ids), data)

RECURSIVE disconnectAll(_, _, _, _)
disconnectAll(st, live, c, ids) ==
  IF ids = << >>
    THEN st
    ELSE disconnectAll(disconnectHandler(st, live, c, Head(ids)),
                       live, c, Tail(ids))

(***************************************************************************)
(* The state machine.                                                      *)
(***************************************************************************)
NewSocket == [open |-> FALSE, listeners |-> << >>, lookups |-> << >>, kick |-> FALSE]

\* The handler record at the start of an event: nothing emitted or saved yet.
Start == [sprites |-> sprites, inactiveSprites |-> inactiveSprites,
          sent |-> << >>, saved |-> << >>, left |-> left, out |-> << >>]

Commit(st) == /\ sprites' = st.sprites
              /\ inactiveSprites' = st.inactiveSprites
              /\ sent' = st.sent
              /\ saved' = st.saved
              /\ left' = IF recording THEN st.left ELSE left
              /\ UNCHANGED recording

Event(kind, c, arg) == [kind |-> kind, conn |-> c, arg |-> arg]

\* The admissions made and the Users queries in flight, over all sockets.
RECURSIVE Total(_, _)
Total(cn, cs) ==
  IF cs = {} THEN 0
  ELSE LET c == CHOOSE d \in cs : TRUE
       IN Len(cn[c].listeners) + Len(cn[c].lookups) + Total(cn, cs \ {c})
Admissions(cn) == Total(cn, Conns)

RemoveAt(s, i) == SubSeq(s, 1, i - 1) \o SubSeq(s, i + 1, Len(s))

\* The sprites file: absent, not JSON5, or the entries of a Map.
NoFile == [state |-> "absent", entries |-> {}]
Corrupt == [state |-> "corrupt", entries |-> {}]

\* persistentData.writeMap: the file rewritten whole, one entry per key.
writeMap(m) == [state |-> "written", entries |-> {<<k, m[k]>> : k \in DOMAIN m}]

\* persistentData.readMap: no file gives an empty Map, a file that does not
\* parse throws, any other gives the Map of its entries.
readMap(f) ==
  IF f.state = "corrupt"
    THEN [threw |-> TRUE, map |-> EmptyMap]
    ELSE [threw |-> FALSE,
          map |-> [k \in {e[1] : e \in f.entries} |->
                     (CHOOSE e \in f.entries : e[1] = k)[2]]]

\* The process: loading, waiting for the save of the startup, serving,
\* waiting for the save of SIGINT, about to exit, or gone.
At(where) == [at |-> where, status |-> 0]
Exited(status) == [at |-> "exited", status |-> status]

\* The POST /api/sign-up requests that are followed, and one that has not
\* been made yet.
Requests == {"r1", "r2"}
NoRequest ==
  [at |-> "idle", name |-> Undefined, password |-> Undefined, status |-> 0,
   body |-> ""]

\* A fresh server: both Maps empty (no sprites file yet), no sockets.
Fresh == /\ file = writeMap(EmptyMap)
         /\ users = {}
         /\ signups = [r \in Requests |-> NoRequest]
         /\ writes = << >>
         /\ proc = At("running")
         /\ sprites = EmptyMap
         /\ inactiveSprites = EmptyMap
         /\ conn = [c \in Conns |-> NewSocket]
         /\ sent = << >>
         /\ saved = << >>
         /\ ev = Event("start", "", Undefined)
         /\ left = [i \in Identities |-> EmptyMap]

Init == Fresh /\ recording = FALSE

\* The same server, observed with the history of what was archived.
InitHistory == Fresh /\ recording = TRUE

\* io.on("connection"): the server asks for the token (server.js:298-300).
Connect(c) ==
  /\ ~conn[c].open
  /\ conn[c].lookups = << >>
  /\ ~conn[c].kick
  /\ conn' = [conn EXCEPT ![c] = [NewSocket EXCEPT !.open = TRUE]]
  /\ Commit([Start EXCEPT !.sent = << Emit(Live(conn'), c, "sendToken", Undefined) >>])
  /\ ev' = Event("connection", c, Undefined)

\* socket.on("token"): jwt.verify, then the Users query (server.js:302-313).
Token(c, tok) ==
  /\ conn[c].open
  /\ IF tok = BadToken
       THEN /\ conn' = [conn EXCEPT ![c].kick = TRUE]
            /\ Commit([Start EXCEPT !.sent = << Emit(Live(conn), c, "unauthorized", Undefined) >>])
       ELSE /\ Admissions(conn) < MaxAdmissions
            /\ conn' = [conn EXCEPT ![c].lookups = Append(@, tok.id)]
            /\ Commit(Start)
  /\ ev' = Event("token", c, tok)

\* A failed lookup that sends the notice and leaves the socket connected.
LookupDoneNoDisconnect(c, n, outcome) ==
  /\ n \in 1 .. Len(conn[c].lookups)
  /\ LET id == conn[c].lookups[n]
     IN IF outcome = "found"
          THEN /\ conn' = [conn EXCEPT
                             ![c].lookups = RemoveAt(@, n),
                             ![c].listeners = IF conn[c].open THEN Append(@, id) ELSE @]
               /\ Commit(admit(Start, Live(conn), c, id))
          ELSE /\ conn' = [conn EXCEPT ![c].lookups = RemoveAt(@, n)]
               /\ Commit([Start EXCEPT !.sent = << Emit(Live(conn), c, "unauthorized", Undefined) >>])
  /\ ev' = Event("lookup", c, [id |-> conn[c].lookups[n], admitted |-> outcome = "found"])

\* A failed lookup that tells the client that its account is gone.
LookupDoneTelling(c, n, outcome) ==
  /\ n \in 1 .. Len(conn[c].lookups)
  /\ LET id == conn[c].lookups[n]
     IN IF outcome = "found"
          THEN /\ conn' = [conn EXCEPT
                             ![c].lookups = RemoveAt(@, n),
                             ![c].listeners = IF conn[c].open THEN Append(@, id) ELSE @]
               /\ Commit(admit(Start, Live(conn), c, id))
          ELSE /\ conn' = [conn EXCEPT ![c].lookups = RemoveAt(@, n),
                                       ![c].kick = TRUE]
               /\ Commit([Start EXCEPT !.sent = << Emit(Live(conn), c, "unknownUser", Undefined) >>])
  /\ ev' = Event("lookup", c, [id |-> conn[c].lookups[n], admitted |-> outcome = "found"])

\* The Users query of a token comes back (server.js:314-488).
LookupDone(c, n, outcome) ==
  /\ n \in 1 .. Len(conn[c].lookups)
  /\ LET id == conn[c].lookups[n]
     IN IF outcome = "found"
          THEN /\ conn' = [conn EXCEPT
                             ![c].lookups = RemoveAt(@, n),
                             ![c].listeners = IF conn[c].open THEN Append(@, id) ELSE @]
               /\ Commit(admit(Start, Live(conn), c, id))
          ELSE /\ conn' = [conn EXCEPT ![c].lookups = RemoveAt(@, n),
                                       ![c].kick = TRUE]
               /\ Commit([Start EXCEPT !.sent = << Emit(Live(conn), c, "unauthorized", Undefined) >>])
  /\ ev' = Event("lookup", c, [id |-> conn[c].lookups[n], admitted |-> outcome = "found"])

\* The listeners registered as soon as the token verifies, before the Users
\* query has answered.
SpriteDataBeforeLookup(c, data) ==
  /\ conn[c].open
  /\ LET st == spriteDataAll(Start, Live(conn), c,
                             conn[c].listeners \o conn[c].lookups, data)
     IN /\ Commit(st)
        /\ ev' = Event("spriteData", c, [id |-> Get(data, "id"), out |-> st.out])
  /\ UNCHANGED conn

\* A spriteData message arrives on a socket (server.js:377-440).
SpriteData(c, data) ==
  /\ conn[c].open
  /\ LET st == spriteDataAll(Start, Live(conn), c, conn[c].listeners, data)
     IN /\ Commit(st)
        /\ ev' = Event("spriteData", c, [id |-> Get(data, "id"), out |-> st.out])
  /\ UNCHANGED conn

\* A chat message arrives on a socket (server.js:368-375).
Chat(c, data) ==
  /\ conn[c].open
  /\ Commit(chatAll(Start, Live(conn), c, conn[c].listeners, data))
  /\ ev' = Event("chat", c, Undefined)
  /\ UNCHANGED conn

\* A command message arrives on a socket (server.js:442-446).
Command(c, data) ==
  /\ conn[c].open
  /\ Commit(commandAll(Start, Live(conn), c, conn[c].listeners, data))
  /\ ev' = Event("command", c, Undefined)
  /\ UNCHANGED conn

\* The socket closes: its disconnect listeners run (server.js:448-473).
Close(cn, c, kind) ==
  /\ conn' = [cn EXCEPT ![c].open = FALSE, ![c].listeners = << >>, ![c].kick = FALSE]
  /\ Commit(disconnectAll(Start, Live(conn'), c, conn[c].listeners))
  /\ ev' = Event(kind, c, conn[c].listeners)

\* The client goes away.
Disconnect(c) ==
  /\ conn[c].open
  /\ Close(conn, c, "disconnect")

\* wait(500) is over: socket.disconnect() (server.js:307-308, 479-480, 486-487).
Kick(c) ==
  /\ conn[c].kick
  /\ IF conn[c].open
       THEN Close([conn EXCEPT ![c].kick = FALSE], c, "kick")
       ELSE /\ conn' = [conn EXCEPT ![c].kick = FALSE]
            /\ Commit(Start)
            /\ ev' = Event("kick", c, << >>)

\* The server seen from its sockets: the writes it starts are in saved, what
\* becomes of them on the disk is not followed.
Quiet == UNCHANGED <<file, writes, proc, users, signups>>

Next ==
  \/ \E c \in Conns : Connect(c) /\ Quiet
  \/ \E c \in Conns : \E tok \in Tokens(c) : Token(c, tok) /\ Quiet
  \/ \E c \in Conns, n \in 1 .. MaxAdmissions, outcome \in LookupOutcomes :
        LookupDone(c, n, outcome) /\ Quiet
  \/ \E c \in Conns, data \in Updates : SpriteData(c, data) /\ Quiet
  \/ \E c \in Conns : Disconnect(c) /\ Quiet
  \/ \E c \in Conns : Kick(c) /\ Quiet

Spec == Init /\ [][Next]_vars

\* The behaviours observed with the history: the spriteData messages are the
\* ones that carry all the required data themselves.
NextHistory ==
  \/ \E c \in Conns : Connect(c) /\ Quiet
  \/ \E c \in Conns : \E tok \in Tokens(c) : Token(c, tok) /\ Quiet
  \/ \E c \in Conns, n \in 1 .. MaxAdmissions, outcome \in LookupOutcomes :
        LookupDone(c, n, outcome) /\ Quiet
  \/ \E c \in Conns, data \in {d \in Updates : HasRequired(d)} :
        SpriteData(c, data) /\ Quiet
  \/ \E c \in Conns : Disconnect(c) /\ Quiet
  \/ \E c \in Conns : Kick(c) /\ Quiet

SpecHistory == InitHistory /\ [][NextHistory]_vars

\* The same server with the chat and command messages as well.  Neither
\* changes a Map or a socket: they add to the behaviours only what they emit.
NextMessages ==
  \/ Next
  \/ \E c \in Conns, data \in ChatTexts : Chat(c, data) /\ Quiet
  \/ \E c \in Conns, data \in Commands : Command(c, data) /\ Quiet

SpecMessages == Init /\ [][NextMessages]_vars

\* The admission flow alone: the sockets connect, submit tokens, are admitted
\* or refused, and close.  wait(500) always comes to its end: a socket that
\* is to be closed by the server is closed (the timers of server.js:307, 479
\* and 486 fire).
NextAuth ==
  \/ \E c \in Conns : Connect(c) /\ Quiet
  \/ \E c \in Conns : \E tok \in Tokens(c) : Token(c, tok) /\ Quiet
  \/ \E c \in Conns, n \in 1 .. MaxAdmissions, outcome \in LookupOutcomes :
        LookupDone(c, n, outcome) /\ Quiet
  \/ \E c \in Conns : Disconnect(c) /\ Quiet
  \/ \E c \in Conns : Kick(c) /\ Quiet

SpecFair ==
  Init /\ [][NextAuth]_vars /\ \A c \in Conns : WF_vars(Kick(c) /\ Quiet)

\* The talk between the players: the admission flow with chat and command
\* messages of several forms, some naming a speaker or a sprite, and the
\* move of a sprite.
TalkTexts == ChatTexts \cup
  { [name |-> Str("u2"), text |-> Str("hi")],
    [name |-> Str("u1"), text |-> Str("bye")],
    [content |-> Str("hi")] }
TalkCommands == Commands \cup
  { [command |-> Str("deleteAllNPCs"), id |-> Str("u1")],
    [x |-> Num(10), y |-> Num(20), id |-> Str("u2")] }
TalkUpdates == { WithId([x |-> Num(10), y |-> Num(20)], i) : i \in SpriteIds }

NextTalk ==
  \/ NextAuth
  \/ \E c \in Conns, data \in TalkUpdates : SpriteData(c, data) /\ Quiet
  \/ \E c \in Conns, data \in TalkTexts : Chat(c, data) /\ Quiet
  \/ \E c \in Conns, data \in TalkCommands : Command(c, data) /\ Quiet

SpecTalk == Init /\ [][NextTalk]_vars

\* The admission flow with the sprites a client may ask the server to keep
\* when it disconnects: spriteData for the sprite u1 that carries all the
\* required data, with and without pod: true (README.md:132).
True == [t |-> "boolean", v |-> TRUE]
PodShapes ==
  { [x |-> Num(10), y |-> Num(20), scene |-> Str("S"), sprite |-> Str("P")],
    [x |-> Num(10), y |-> Num(20), scene |-> Str("S"), sprite |-> Str("P"),
     pod |-> True] }
PodUpdates == {WithId(s, Str("u1")) : s \in PodShapes}
NextPod ==
  \/ NextAuth
  \/ \E c \in Conns, data \in PodUpdates : SpriteData(c, data) /\ Quiet

SpecPod == Init /\ [][NextPod]_vars

(***************************************************************************)
(* POST /api/sign-up (server.js:157-207).                                  *)
(***************************************************************************)

\* A string of the request body, by its characters; n times the letter a.
Text(chars) == [t |-> "string", chars |-> chars]
Rep(n) == Text([i \in 1 .. n |-> "a"])

\* req.body.name and req.body.password: bodyParser.json() hands over whatever
\* the JSON of the request holds, a string, a number, or nothing.
Names == {Text(<< >>), Rep(1), Rep(2), Rep(8), Rep(72), Rep(73), Num(5), Undefined}
Passwords == {Rep(7), Rep(8), Rep(72), Rep(73), Num(5), Undefined}

\* !v
Not(v) == \/ v \in {Undefined, Null, Num(0)}
          \/ v.t = "string" /\ v.chars = << >>

\* v.length: the number of characters of a string, undefined for a number.
\* (Read only where !v is false.)
length(v) == IF v.t = "string" THEN Num(Len(v.chars)) ELSE Undefined

\* a < n and a > n: false when a is undefined (NaN).
Less(a, n) == a # Undefined /\ a.v < n
Greater(a, n) == a # Undefined /\ a.v > n

\* server.js:160-174: the error of the validation, undefined when there is none.
signUpError(name, password) ==
  LET same == IF name = password
                THEN Str("Name and password cannot be the same.")
                ELSE Undefined
      named == IF Not(name) \/ Less(length(name), 2)
                 THEN Str("Names must be at least 2 characters long")
                 ELSE IF Greater(length(name), 72)
                        THEN Str("Names must be a maximum of 72 characters long")
                        ELSE same
  IN IF Not(password) \/ Less(length(password), 8)
       THEN Str("Password must be at least 8 characters long")
       ELSE IF Greater(length(password), 72)
              THEN Str("Password must be a maximum of 72 characters long")
              ELSE named

\* What SQLite keeps or compares in the TEXT column name for a bound value:
\* the text itself, and for the number 5 its digits.
SqlText(v) == IF v.t = "number" THEN Text(<< "5" >>) ELSE v

\* bcrypt.hash(password, saltRounds, callback): the hash handed to the
\* callback, undefined (with err) when the password is no string.
bcryptHash(password) ==
  IF password.t = "string" THEN [t |-> "hash", of |-> password] ELSE Undefined

\* res.status(status).send(body): the request is answered.
Answered(req, status, body) ==
  [req EXCEPT !.at = "done", !.status = status, !.body = body]

\* The sockets and the sprites file are not touched by the sign-up route.
Still ==
  UNCHANGED <<sprites, inactiveSprites, conn, sent, saved, left, recording,
              file, writes, proc>>

\* server.js:157-180: a request arrives; it is refused with 400 when the
\* validation found an error, else the SELECT is started and awaited.
Post(r, name, password) ==
  /\ signups[r].at = "idle"
  /\ LET error == signUpError(name, password)
         req == [signups[r] EXCEPT !.name = name, !.password = password]
     IN signups' = [signups EXCEPT ![r] =
                      IF Truthy(error) THEN Answered(req, 400, error.v)
                      ELSE [req EXCEPT !.at = "select"]]
  /\ ev' = Event("post", r, Undefined)
  /\ UNCHANGED users
  /\ Still

\* server.js:178-203: the SELECT is over.  An error is answered with 500, a
\* row with the name with 400; else bcrypt.hash is started and, without
\* waiting for it, the request is answered with 200.
SelectDone(r, outcome) ==
  /\ signups[r].at = "select"
  /\ LET req == signups[r]
         rows == {u \in users : u.name = SqlText(req.name)}
     IN signups' = [signups EXCEPT ![r] =
          IF outcome = "error"
            THEN Answered(req, 500, "Unknown error creating user.")
            ELSE IF rows # {}
                   THEN Answered(req, 400, "Name already exists")
                   ELSE [req EXCEPT !.at = "hash", !.status = 200, !.body = "OK"]]
  /\ ev' = Event("select", r, outcome)
  /\ UNCHANGED users
  /\ Still

\* server.js:195-199: the callback of bcrypt.hash runs the INSERT (the id of
\* the row is a randomUUID(): the model takes the request for it).  The row
\* is added unless the database refuses it: on an error of its own, or for
\* the NOT NULL of password (server.js:115) when there is no hash.
Inserted(r, outcome) ==
  /\ signups[r].at = "hash"
  /\ LET req == signups[r]
         hash == bcryptHash(req.password)
     IN users' = IF outcome = "error" \/ hash = Undefined
                   THEN users
                   ELSE users \cup
                          {[id |-> r, name |-> SqlText(req.name), password |-> hash]}
  /\ signups' = [signups EXCEPT ![r].at = "done"]
  /\ ev' = Event("insert", r, outcome)
  /\ Still

QueryOutcomes == {"rows", "error"}

NextSignUp ==
  \/ \E r \in Requests, name \in Names, password \in Passwords :
        Post(r, name, password)
  \/ \E r \in Requests, outcome \in QueryOutcomes : SelectDone(r, outcome)
  \/ \E r \in Requests, outcome \in QueryOutcomes : Inserted(r, outcome)

SpecSignUp == Init /\ [][NextSignUp]_vars

(***************************************************************************)
(* The server with its sprites file: startup, writes, SIGINT, restart.     *)
(***************************************************************************)
MaxWrites == 2

\* The files a first start can find.
Archived1020 == [DefaultSprite(Str("u1")) EXCEPT !.x = Num(10), !.y = Num(20)]
FoundFiles ==
  { NoFile, Corrupt,
    writeMap(MapSet(EmptyMap, Str("u1"), Archived1020)) }

\* These behaviours have one client at a time, the one behind c2, which
\* holds tokens of both accounts: it submits one token per connection, and
\* sends a move or a whole sprite under the id u1.
StoreConns == {"c2"}
StoreTokens(c) == {Jwt(i) : i \in Accounts[c]}
StoreUpdates ==
  { WithId([x |-> Num(10), y |-> Num(20)], Str("u1")),
    WithId([x |-> Num(10), y |-> Num(20), scene |-> Str("S"), sprite |-> Str("P")],
           Str("u1")) }

\* A writeMap call under way: who started it, for which player, with what.
Write(by, id, m) == [by |-> by, id |-> id, map |-> m]

\* The process is started.
InitStore ==
  /\ file \in FoundFiles
  /\ writes = << >>
  /\ proc = At("boot")
  /\ sprites = EmptyMap
  /\ inactiveSprites = EmptyMap
  /\ conn = [c \in Conns |-> NewSocket]
  /\ sent = << >>
  /\ saved = << >>
  /\ ev = Event("start", "", Undefined)
  /\ left = [i \in Identities |-> EmptyMap]
  /\ recording = FALSE
  /\ users = {}
  /\ signups = [r \in Requests |-> NoRequest]

\* A startup that goes on with an empty Map when the file cannot be read.
LoadAnyway ==
  /\ proc = At("boot")
  /\ proc' = At("saving")
  /\ inactiveSprites' = readMap(file).map
  /\ saved' = << spritesToSave(EmptyMap, inactiveSprites') >>
  /\ writes' = << Write("startup", Undefined, saved'[1]) >>
  /\ sprites' = EmptyMap
  /\ left' = [i \in Identities |-> EmptyMap]
  /\ sent' = << >>
  /\ ev' = Event("load", "", Undefined)
  /\ UNCHANGED <<conn, recording, file, users, signups>>

\* server.js:76-107: the file is read into inactiveSprites, or the process
\* exits with status 1; then the save of the startup is awaited.
Load ==
  /\ proc = At("boot")
  /\ LET got == readMap(file)
     IN IF got.threw
          THEN /\ proc' = Exited(1)
               /\ saved' = << >>
               /\ UNCHANGED <<inactiveSprites, writes>>
          ELSE /\ proc' = At("saving")
               /\ inactiveSprites' = got.map
               /\ saved' = << spritesToSave(EmptyMap, got.map) >>
               /\ writes' = << Write("startup", Undefined, saved'[1]) >>
  /\ sprites' = EmptyMap
  /\ left' = [i \in Identities |-> EmptyMap]
  /\ sent' = << >>
  /\ ev' = Event("load", "", Undefined)
  /\ UNCHANGED <<conn, recording, file, users, signups>>

\* A writeMap call completes: the file is what it was given.  The calls
\* under way complete in any order.  The handler that awaits the call goes on:
\* the startup to serving (server.js:107-298), SIGINT to its exit.
WriteDone(n) ==
  /\ n \in 1 .. Len(writes)
  /\ proc.at # "exited"
  /\ file' = writeMap(writes[n].map)
  /\ writes' = RemoveAt(writes, n)
  /\ proc' = IF writes[n].by = "startup" THEN At("running")
             ELSE IF writes[n].by = "SIGINT" THEN At("flushed")
             ELSE proc
  /\ sent' = << >>
  /\ saved' = << >>
  /\ ev' = Event("written", "", writes[n].by)
  /\ UNCHANGED <<sprites, inactiveSprites, conn, left, recording, users, signups>>

\* process.on("SIGINT"): the save is started and awaited (server.js:498-500).
Sigint ==
  /\ proc = At("running")
  /\ Len(writes) < MaxWrites
  /\ proc' = At("stopping")
  /\ saved' = << spritesToSave(sprites, inactiveSprites) >>
  /\ writes' = Append(writes, Write("SIGINT", Undefined, saved'[1]))
  /\ sent' = << >>
  /\ ev' = Event("SIGINT", "", Undefined)
  /\ UNCHANGED <<sprites, inactiveSprites, conn, left, recording, file,
                 users, signups>>

\* process.exit() (server.js:502): the writes still under way are lost.
Exit ==
  /\ proc = At("flushed")
  /\ proc' = Exited(0)
  /\ writes' = << >>
  /\ conn' = [c \in Conns |-> NewSocket]
  /\ sent' = << >>
  /\ saved' = << >>
  /\ ev' = Event("exit", "", Undefined)
  /\ UNCHANGED <<sprites, inactiveSprites, left, recording, file, users, signups>>

\* The server is started again after a graceful exit.  (Until the new
\* process has loaded, the two Maps are shown as the old process left them.)
Restart ==
  /\ proc = Exited(0)
  /\ proc' = At("boot")
  /\ sent' = << >>
  /\ saved' = << >>
  /\ ev' = Event("restart", "", Undefined)
  /\ UNCHANGED <<sprites, inactiveSprites, left, conn, recording, file, writes,
                 users, signups>>

\* The handlers run once the listeners are set; every saveGameStateToDisk()
\* of a disconnect handler is a writeMap call under way (server.js:470, not
\* awaited).  The clients of these behaviours are quiet from SIGINT on.
Serving ==
  /\ proc = At("running")
  /\ Len(writes) + Len(saved') <= MaxWrites
  /\ writes' = writes \o [n \in 1 .. Len(saved') |->
                            Write("disconnect", ev'.arg[n], saved'[n])]
  /\ UNCHANGED <<file, proc, users, signups>>

NextStore ==
  \/ Load
  \/ \E n \in 1 .. MaxWrites : WriteDone(n)
  \/ Sigint
  \/ Exit
  \/ Restart
  \/ \E c \in StoreConns : Connect(c) /\ Serving
  \/ \E c \in StoreConns : \E tok \in StoreTokens(c) :
        conn[c].listeners = << >> /\ conn[c].lookups = << >> /\ Token(c, tok) /\ Serving
  \/ \E c \in StoreConns : LookupDone(c, 1, "found") /\ Serving
  \/ \E c \in StoreConns, data \in StoreUpdates : SpriteData(c, data) /\ Serving
  \/ \E c \in StoreConns : Disconnect(c) /\ Serving

SpecStore == InitStore /\ [][NextStore]_vars

(***************************************************************************)
(* What the properties below speak about.                                  *)
(***************************************************************************)
Required == {"x", "y", "scene", "sprite"}

\* The identities a socket has been admitted as.
AdmittedAs(c) == {conn[c].listeners[n] : n \in 1 .. Len(conn[c].listeners)}

\* The update filled in from the object it is about, as section 4.2 has it.
MergedWith(d, prev) ==
  [k \in (DOMAIN d) \cup (DOMAIN prev) |-> IF k \in DOMAIN d THEN d[k] ELSE prev[k]]
Merged(d) ==
  IF d.id \in DOMAIN sprites THEN MergedWith(d, sprites[d.id]) ELSE d

\* A required field is absent or null.
Lacks(o) == \E k \in Required : k \notin DOMAIN o \/ o[k] = Null

\* The last event was a spriteData message that a listener stored,
\* discarded for missing data, or denied for the owner.
Was(c, outcome) ==
  /\ ev.kind = "spriteData"
  /\ ev.conn = c
  /\ ev.arg.out = << outcome >>

\* The step is the handling of the spriteData message d on socket c.
Handles(c, d) ==
  /\ ev'.kind = "spriteData"
  /\ ev'.conn = c
  /\ ev'.arg.id = d.id
  /\ SpriteData(c, d)

\* C1. Ownership invariant: a spriteData message for an active object,
\* arriving on a socket admitted only as identities other than the object's
\* owner, changes neither the active nor the archived Map, whatever it carries.
C1_OwnershipInvariant ==
  [][\A c \in Conns, d \in Updates :
       ( /\ AdmittedAs(c) # {}
         /\ d.id \in DOMAIN sprites
         /\ sprites[d.id].owner \notin AdmittedAs(c)
         /\ Handles(c, d) )
       => /\ sprites' = sprites
          /\ inactiveSprites' = inactiveSprites]_vars

\* u2 has just been denied an update of the active sprite u1 that u1 owns.
C1_Witness ==
  /\ Was("c2", "denied")
  /\ conn["c2"].listeners = << Str("u2") >>
  /\ ev.arg.id = Str("u1")
  /\ Str("u1") \in DOMAIN sprites
  /\ sprites[Str("u1")].owner = Str("u1")

\* C2. Partition disjointness: no id is a key of both the active and the
\* archived Map.
C2_Disjoint == (DOMAIN sprites) \cap (DOMAIN inactiveSprites) = {}

\* The outcomes of the listeners that ran, and the identity of the last of
\* them that stored the update.
Outcomes(out) == {out[n] : n \in 1 .. Len(out)}
LastStorer(ids, out) ==
  ids[CHOOSE n \in 1 .. Len(out) :
        /\ out[n] = "stored"
        /\ \A m \in (n + 1) .. Len(out) : out[m] # "stored"]

\* C3. Owner spoof immunity: an object stored by an accepted update from a
\* socket admitted as A has owner A, whatever owner the update carried and
\* whatever the data it was merged with.
C3_OwnerForced ==
  [][\A c \in Conns, d \in Updates :
       ( /\ ev'.kind = "spriteData"
         /\ "stored" \in Outcomes(ev'.arg.out)
         /\ Handles(c, d) )
       => /\ d.id \in DOMAIN sprites'
          /\ "owner" \in DOMAIN sprites'[d.id]
          /\ sprites'[d.id].owner = LastStorer(conn[c].listeners, ev'.arg.out)]_vars

\* u2 has just stored a new sprite u1 with the one payload that names u1 as
\* its owner (the only payload with hp), and the sprite is u2's.
C3_Witness ==
  /\ Was("c2", "stored")
  /\ conn["c2"].listeners = << Str("u2") >>
  /\ ev.arg.id = Str("u1")
  /\ sprites[Str("u1")].owner = Str("u2")
  /\ "hp" \in DOMAIN sprites[Str("u1")]

\* C4. Forward-merge: after an accepted update of an existing active object,
\* every key of the update but owner has the update's value, every key of the
\* previous object that the update lacks has its previous value, and no key
\* of the previous object is gone.
C4_ForwardMerge ==
  [][\A c \in Conns, d \in Updates :
       ( /\ ev'.kind = "spriteData"
         /\ "stored" \in Outcomes(ev'.arg.out)
         /\ d.id \in DOMAIN sprites
         /\ Handles(c, d) )
       => /\ d.id \in DOMAIN sprites'
          /\ (DOMAIN d) \cup (DOMAIN sprites[d.id]) \subseteq DOMAIN sprites'[d.id]
          /\ \A k \in (DOMAIN d) \ {"owner"} : sprites'[d.id][k] = d[k]
          /\ \A k \in (DOMAIN sprites[d.id]) \ (DOMAIN d) :
                sprites'[d.id][k] = sprites[d.id][k]]_vars

\* u1 moved its default sprite with a payload of x and y alone: the scene
\* and the sprite of the default are still there.
C4_Witness ==
  /\ Was("c1", "stored")
  /\ ev.arg.id = Str("u1")
  /\ Str("u1") \in DOMAIN sprites
  /\ sprites[Str("u1")] =
       [id |-> Str("u1"), owner |-> Str("u1"), x |-> Num(10), y |-> Num(20),
        scene |-> Str("LoruleH8"), sprite |-> Str("bloomby")]

\* C5. Required-field rejection is all-or-nothing: an update whose merged
\* object lacks x, y, scene or sprite stores nothing: an existing object keeps
\* its fields and a new id is added to neither Map.
C5_AllOrNothing ==
  [][\A c \in Conns, d \in Updates :
       ( /\ ev'.kind = "spriteData"
         /\ ev'.conn = c
         /\ ev'.arg.id = d.id
         /\ Lacks(Merged(d))
         /\ Handles(c, d) )
       => /\ sprites' = sprites
          /\ inactiveSprites' = inactiveSprites]_vars

\* u2 has just had an update for the new id u1 discarded, and u1 is a key of
\* neither Map.
C5_Witness ==
  /\ Was("c2", "discarded")
  /\ conn["c2"].listeners = << Str("u2") >>
  /\ ev.arg.id = Str("u1")
  /\ Str("u1") \notin (DOMAIN sprites) \cup (DOMAIN inactiveSprites)

\* C6. Validation rejects an update that passed the ownership check if and
\* only if x, y, scene or sprite is absent or null on the merged object: with
\* all four present and non-null it is stored, whatever the numbers x and y.
C6_RejectsIffLacking ==
  [][\A c \in Conns, d \in Updates :
       ( /\ AdmittedAs(c) # {}
         /\ (d.id \in DOMAIN sprites => sprites[d.id].owner \in AdmittedAs(c))
         /\ Handles(c, d) )
       => (Lacks(Merged(d)) <=> "stored" \notin Outcomes(ev'.arg.out))]_vars

C8_RoundTrip ==
  [][(ev'.kind = "lookup" /\ ev'.arg.admitted /\ conn'[ev'.conn].open)
       => \A k \in DOMAIN left[ev'.arg.id] :
            /\ k \in DOMAIN sprites'
            /\ sprites'[k] = left[ev'.arg.id][k]]_vars

\* C9. Default object synthesis: an admission as I resurrects I's archived
\* objects; then, if no active object has id I, the default object is added,
\* and if one has, it is left as it is.
C9_DefaultObject ==
  [][(ev'.kind = "lookup" /\ ev'.arg.admitted)
       => LET I == ev'.arg.id
              archived == /\ I \in DOMAIN inactiveSprites
                          /\ Get(inactiveSprites[I], "owner") = I
          IN /\ I \in DOMAIN sprites'
             /\ sprites'[I] =
                  IF archived THEN inactiveSprites[I]
                  ELSE IF I \in DOMAIN sprites THEN sprites[I]
                  ELSE [id |-> I, owner |-> I, x |-> Num(0), y |-> Num(0),
                        scene |-> Str("LoruleH8"), sprite |-> Str("bloomby")]]_vars

\* u1 has just been admitted to a server with no other sprite, and has the
\* default sprite.
C9_Witness ==
  /\ ev.kind = "lookup"
  /\ ev.arg = [id |-> Str("u1"), admitted |-> TRUE]
  /\ inactiveSprites = EmptyMap
  /\ DOMAIN sprites = {Str("u1")}
  /\ sprites[Str("u1")] =
       [id |-> Str("u1"), owner |-> Str("u1"), x |-> Num(0), y |-> Num(0),
        scene |-> Str("LoruleH8"), sprite |-> Str("bloomby")]

\* The listeners the last event ran.
Ran ==
  IF ev.kind = "spriteData" THEN Len(ev.arg.out)
  ELSE IF ev.kind \in {"disconnect", "kick"} THEN Len(ev.arg)
  ELSE 1
Snapshots == {n \in 1 .. Len(sent) : sent[n].kind = "sprites"}

\* C10. Snapshot completeness: a 'sprites' message, read back by the client,
\* is the active Map as it is when the message is sent: the same ids, each
\* with its stored fields, and nothing that is only archived.  (When an event
\* runs several listeners, the messages of the last one are the ones sent in
\* the state the event ends in.)
C10_SnapshotComplete ==
  \A n \in Snapshots :
    (Ran <= 1 \/ \A m \in Snapshots : m <= n + 1)
      => reviver(sent[n].body) = sprites

\* A leave has just been broadcast to a socket: the snapshot has the sprites
\* that stay, and the ones that left are archived.
C10_Witness ==
  /\ ev.kind = "disconnect"
  /\ DOMAIN inactiveSprites # {}
  /\ \E n \in Snapshots : sent[n].to # {} /\ sent[n].body.value # {}

\* The sockets that are connected and admitted.
Authenticated == {c \in Conns : conn[c].open /\ conn[c].listeners # << >>}

\* The socket has been sent, in the last event, a snapshot of the active Map
\* as it is now.
SentSprites(c) ==
  \E n \in Snapshots : /\ c \in sent[n].to
                        /\ reviver(sent[n].body) = sprites

\* C11. Broadcast after an accepted update: when a spriteData event stored
\* an update, every connected admitted socket, the sender included, has been
\* sent in that event a snapshot taken after the merge.
C11_UpdateBroadcast ==
  (ev.kind = "spriteData" /\ "stored" \in Outcomes(ev.arg.out))
    => /\ ev.conn \in Authenticated
       /\ \A c \in Authenticated : SentSprites(c)

\* u1 on c1 has just stored an update while u2 is admitted on c2: both have
\* the snapshot with the stored sprite.
C11_Witness ==
  /\ Was("c1", "stored")
  /\ Authenticated = Conns
  /\ conn["c2"].listeners = << Str("u2") >>
  /\ ev.arg.id \in DOMAIN sprites
  /\ \A c \in Conns : SentSprites(c)

\* C12. Broadcast after a join: when a connected socket is admitted, every
\* connected admitted socket has been sent a snapshot with the joiner's
\* resurrected or default sprites.
C12_JoinBroadcast ==
  [][(/\ ev'.kind = "lookup"
      /\ ev'.arg.admitted
      /\ conn[ev'.conn].open
      /\ sprites' # sprites)
       => \A c \in Authenticated' : SentSprites(c)']_vars

\* The snapshots of the last event that went to every socket still connected.
ToRemaining == {n \in Snapshots : Live(conn) \subseteq sent[n].to}

C14_Gating ==
  [][(/\ ev'.kind \in {"chat", "spriteData", "command"}
      /\ conn[ev'.conn].listeners = << >>)
       => /\ sprites' = sprites
          /\ inactiveSprites' = inactiveSprites
          /\ sent' = << >>
          /\ saved' = << >>]_vars

\* c1, whose token is still being checked, has just sent a message of the
\* given kind while u2 is admitted on c2 and has a sprite.
Ungated(kind) ==
  /\ ev.kind = kind
  /\ ev.conn = "c1"
  /\ conn["c1"].listeners = << >>
  /\ conn["c1"].lookups # << >>
  /\ "c2" \in Authenticated
  /\ DOMAIN sprites # {}
  /\ sent = << >>

C14_Witness == Ungated("spriteData") /\ ev.arg.out = << >>

\* The step is a failed submission: a token that does not verify, or a Users
\* query that finds no such user or throws.
Fails ==
  \/ ev'.kind = "token" /\ ev'.arg = BadToken
  \/ ev'.kind = "lookup" /\ ~ev'.arg.admitted

\* C15. Authentication failure: a failed submission sends 'unauthorized' to
\* the socket (if it is still connected) and nothing else, changes neither
\* Map, and starts the wait after which the server closes the socket; a
\* connected socket that waits to be closed is eventually closed.
C15_AuthFailure ==
  /\ [][Fails =>
          /\ sprites' = sprites
          /\ inactiveSprites' = inactiveSprites
          /\ Len(sent') = 1
          /\ sent'[1].kind = "unauthorized"
          /\ sent'[1].to = (IF conn[ev'.conn].open THEN {ev'.conn} ELSE {})
          /\ conn'[ev'.conn].kick]_vars
  /\ \A c \in Conns : (conn[c].open /\ conn[c].kick) ~> ~conn[c].open

\* The Users query of c2's token has just failed while c2 is connected and u1
\* is in the game on c1: c2 holds the notice and waits to be closed.
C15_Witness ==
  /\ ev.kind = "lookup"
  /\ ev.conn = "c2"
  /\ ~ev.arg.admitted
  /\ conn["c2"].open
  /\ conn["c2"].kick
  /\ conn["c2"].listeners = << >>
  /\ sent = << Emit({"c2"}, "c2", "unauthorized", Undefined) >>
  /\ "c1" \in Authenticated
  /\ DOMAIN sprites # {}

\* C16. Session state machine: a connected socket that has been sent
\* 'unauthorized' and waits to be closed is not admitted afterwards.
C16_NoAdmissionAfterUnauthorized ==
  [][\A c \in Conns :
       (conn[c].open /\ conn[c].kick)
         => ~(ev'.kind = "lookup" /\ ev'.conn = c /\ ev'.arg.admitted)]_vars

\* C17. Active means connected: every sprite of the active Map is owned by
\* an identity that a connected socket is admitted as.
C17_ActiveConnected ==
  \A k \in DOMAIN sprites :
    \E c \in Authenticated : Get(sprites[k], "owner") \in AdmittedAs(c)

\* C18. Archived means disconnected: no sprite of the archived Map is owned
\* by an identity that a connected socket is admitted as.
C18_ArchivedDisconnected ==
  \A k \in DOMAIN inactiveSprites :
    \A c \in Authenticated : Get(inactiveSprites[k], "owner") \notin AdmittedAs(c)

\* C19. Primary player object: for every identity I that a connected socket
\* is admitted as, the active sprite with id I, if there is one, has owner I.
C19_PrimaryObject ==
  \A c \in Authenticated :
    \A i \in AdmittedAs(c) :
      i \in DOMAIN sprites => Get(sprites[i], "owner") = i

\* The owners under which an id is stored, in either Map.
Owners(act, inact, k) ==
  {Get(act[j], "owner") : j \in {k} \cap DOMAIN act}
    \cup {Get(inact[j], "owner") : j \in {k} \cap DOMAIN inact}

\* C20. Owner immutability: an id that is stored with owner A is never stored
\* afterwards, in either Map, with another owner.  (No step removes an id
\* from both Maps, so it is enough to compare each step's two states.)
C20_OwnerImmutable ==
  [][\A k \in (DOMAIN sprites) \cup (DOMAIN inactiveSprites) :
       Owners(sprites', inactiveSprites', k)
         \subseteq Owners(sprites, inactiveSprites, k)]_vars

\* What a socket is sent by the emissions of an event: the kinds of the
\* messages that reach it, in order.
RECURSIVE Seen(_, _)
Seen(msgs, c) ==
  IF msgs = << >> THEN << >>
  ELSE IF c \in Head(msgs).to
         THEN << Head(msgs).kind >> \o Seen(Tail(msgs), c)
         ELSE Seen(Tail(msgs), c)

\* The active Map without the given id.
Without(m, k) == [j \in (DOMAIN m) \ {k} |-> m[j]]

\* C21. Ownership-opaque rejection: when an update of B is denied because
\* its id is the sprite of another owner, B is sent what it would be sent for
\* the same update if the id were in no Map: B cannot tell the two apart.
C21_OpaqueRejection ==
  [][\A c \in Conns, d \in Updates :
       ( /\ ev'.kind = "spriteData"
         /\ ev'.arg.out = << "denied" >>
         /\ d.id \notin DOMAIN inactiveSprites
         /\ Handles(c, d) )
       => Seen(sent', c)
            = Seen(spriteDataAll([Start EXCEPT !.sprites = Without(sprites, d.id)],
                                 Live(conn), c, conn[c].listeners, d).sent, c)]_vars

\* C22. Authentication-failure opacity: a connected socket observes the same
\* thing whether its token did not verify or its user was not found: the
\* submission of a token that verifies is answered by nothing until the
\* lookup is back, either failure is answered by 'unauthorized' alone, the
\* socket stays connected for the wait, and the close sends it nothing more.
C22_FailureOpaque ==
  /\ [][(Fails /\ conn[ev'.conn].open)
          => /\ Seen(sent', ev'.conn) = << "unauthorized" >>
             /\ conn'[ev'.conn].open
             /\ conn'[ev'.conn].kick
             /\ conn'[ev'.conn].listeners = conn[ev'.conn].listeners]_vars
  /\ [][(ev'.kind = "token" /\ ev'.arg # BadToken)
          => /\ sent' = << >>
             /\ conn'[ev'.conn].kick = conn[ev'.conn].kick
             /\ conn'[ev'.conn].open]_vars
  /\ [][ev'.kind = "kick"
          => /\ Seen(sent', ev'.conn) = << >>
             /\ ~conn'[ev'.conn].open]_vars

\* c1 has just been refused for a token that does not verify while c2 waits
\* to be closed after a lookup that failed: each was sent the notice alone.
C22_Witness ==
  /\ ev.kind = "token"
  /\ ev.conn = "c1"
  /\ ev.arg = BadToken
  /\ Seen(sent, "c1") = << "unauthorized" >>
  /\ \A c \in Conns : /\ conn[c].open
                       /\ conn[c].kick
                       /\ conn[c].listeners = << >>
                       /\ conn[c].lookups = << >>

\* The active Maps that the handlers of the step leave, one after the other:
\* the Map after each handler of the event has run to its end.  (The
\* listeners of a spriteData event that emit all leave the Map the step ends
\* with; the disconnect listeners of a socket admitted twice leave one Map
\* each.)
Completed ==
  IF ev'.kind \in {"disconnect", "kick"} /\ Len(ev'.arg) > 1
    THEN {disconnectAll(Start, Live(conn'), ev'.conn, SubSeq(ev'.arg, 1, j)).sprites :
            j \in 1 .. Len(ev'.arg)}
    ELSE {sprites'}

\* C23. Update atomicity: every snapshot that a step sends is the active Map
\* as a handler of that step left it when it had run to its end: the Map
\* after a whole update, a whole archive loop or a whole admission, never a
\* Map from inside one.
C23_Atomic ==
  [][(\E n \in 1 .. Len(sent') : sent'[n].kind = "sprites")
       => LET whole == {Snapshot(m) : m \in Completed}
          IN \A n \in 1 .. Len(sent') :
               sent'[n].kind = "sprites" => sent'[n].body \in whole]_vars

\* c2, admitted as u1 and as u2, has been closed while c1 is connected: c1
\* was sent the Map after u1's sprites were archived, which still holds the
\* sprite of u2, and then the Map after u2's were.
C23_Witness ==
  /\ ev.kind = "disconnect"
  /\ ev.conn = "c2"
  /\ ev.arg = << Str("u1"), Str("u2") >>
  /\ conn["c1"].open
  /\ \E n, m \in Snapshots :
        /\ n < m
        /\ sent[n].to = {"c1"}
        /\ sent[m].to = {"c1"}
        /\ DOMAIN reviver(sent[n].body) = {Str("u2")}
        /\ reviver(sent[m].body) = sprites
        /\ sprites = EmptyMap

\* The update is already applied: the active sprite of its id has every
\* field of the update (but the owner, which the server sets).
Applied(d) ==
  /\ d.id \in DOMAIN sprites
  /\ \A k \in (DOMAIN d) \ {"owner"} :
        k \in DOMAIN sprites[d.id] /\ sprites[d.id][k] = d[k]

\* C24. Idempotence: when a socket has just had an update stored and sends
\* the same update again, both Maps stay as they are and the socket and the
\* others are sent the snapshots they were sent the first time.
C24_Idempotent ==
  [][\A c \in Conns, d \in Updates :
       ( /\ ev.kind = "spriteData"
         /\ ev.conn = c
         /\ ev.arg.id = d.id
         /\ "stored" \in Outcomes(ev.arg.out)
         /\ ev'.kind = "spriteData"
         /\ ev'.conn = c
         /\ ev'.arg.id = d.id
         /\ Applied(d)
         /\ Handles(c, d) )
       => /\ sprites' = sprites
          /\ inactiveSprites' = inactiveSprites
          /\ ev'.arg.out = ev.arg.out
          /\ sent' = sent]_vars

\* c1, admitted as u1 while c2 is admitted too, has had the update of its
\* own sprite to x = 10, y = 20 stored, and both sockets were sent the Map
\* that holds it: the state in which the same update sent again leaves
\* everything as it is.
C24_Witness ==
  /\ ev.kind = "spriteData" /\ ev.conn = "c1" /\ ev.arg.id = Str("u1")
  /\ ev.arg.out = << "stored" >>
  /\ Authenticated = Conns
  /\ Str("u1") \in DOMAIN sprites
  /\ sprites[Str("u1")].x = Num(10) /\ sprites[Str("u1")].y = Num(20)
  /\ Len(sent) = 2
  /\ \A n \in 1 .. 2 : sent[n].kind = "sprites" /\ reviver(sent[n].body) = sprites

\* The player of the scenario, the update it sends, and its sprite afterwards.
U1 == Str("u1")
Move1020 == WithId([x |-> Num(10), y |-> Num(20)], U1)
Moved1020 == [DefaultSprite(U1) EXCEPT !.x = Num(10), !.y = Num(20)]

\* The step admits u1 on the connected socket c.
Admits(c) ==
  /\ ev'.kind = "lookup"
  /\ ev'.conn = c
  /\ ev'.arg.id = U1
  /\ ev'.arg.admitted
  /\ conn[c].open

\* The snapshots the step sends to exactly the sockets in to.
SnapshotsTo(to) == {n \in 1 .. Len(sent') : sent'[n].kind = "sprites" /\ sent'[n].to = to}

\* C25. The scenario, step by step.  (1) u1 is admitted while no sprite has
\* its id or its owner: the snapshot it is sent holds the default sprite
\* {id u1, owner u1, x 0, y 0, scene LoruleH8, sprite bloomby}.  (2) With
\* that sprite active u1 sends {id u1, x 10, y 20}: every snapshot sent shows
\* x = 10, y = 20 and the other fields as they were, and u1 is sent one.
\* (3) u1 disconnects: the snapshot sent to the sockets that remain has no
\* sprite u1, which is archived as it was.  (4) u1 is admitted again: the
\* sprite is active with x = 10, y = 20 and in the snapshot u1 is sent.
C25_Scenario ==
  /\ [][\A c \in Conns :
          ( /\ Admits(c)
            /\ U1 \notin (DOMAIN sprites) \cup (DOMAIN inactiveSprites)
            /\ OwnedBy(inactiveSprites, U1) = {} )
          => /\ SnapshotsTo({c}) # {}
             /\ \A n \in SnapshotsTo({c}) :
                  LET m == reviver(sent'[n].body)
                  IN /\ DOMAIN m = (DOMAIN sprites) \cup {U1}
                     /\ m[U1] = DefaultSprite(U1)]_vars
  /\ [][\A c \in Conns :
          ( /\ ev'.kind = "spriteData"
            /\ ev'.conn = c
            /\ ev'.arg.id = U1
            /\ U1 \in AdmittedAs(c)
            /\ U1 \in DOMAIN sprites
            /\ sprites[U1] = DefaultSprite(U1)
            /\ Handles(c, Move1020) )
          => /\ SnapshotsTo({c}) # {}
             /\ \A n \in 1 .. Len(sent') :
                  sent'[n].kind = "sprites"
                    => LET m == reviver(sent'[n].body)
                       IN /\ DOMAIN m = DOMAIN sprites
                          /\ m[U1] = Moved1020
                          /\ \A k \in (DOMAIN m) \ {U1} : m[k] = sprites[k]]_vars
  /\ [][\A c \in Conns :
          ( /\ ev'.kind = "disconnect"
            /\ ev'.conn = c
            /\ ev'.arg = << U1 >>
            /\ U1 \in DOMAIN sprites
            /\ sprites[U1] = Moved1020 )
          => /\ SnapshotsTo(Live(conn) \ {c}) # {}
             /\ \A n \in 1 .. Len(sent') :
                  sent'[n].kind = "sprites"
                    => /\ sent'[n].to = Live(conn) \ {c}
                       /\ U1 \notin DOMAIN reviver(sent'[n].body)
             /\ U1 \in DOMAIN inactiveSprites'
             /\ inactiveSprites'[U1] = Moved1020]_vars
  /\ [][\A c \in Conns :
          ( /\ Admits(c)
            /\ U1 \notin DOMAIN sprites
            /\ U1 \in DOMAIN inactiveSprites
            /\ inactiveSprites[U1] = Moved1020 )
          => /\ U1 \in DOMAIN sprites'
             /\ sprites'[U1] = Moved1020
             /\ U1 \notin DOMAIN inactiveSprites'
             /\ SnapshotsTo({c}) # {}
             /\ \A n \in SnapshotsTo({c}) :
                  reviver(sent'[n].body)[U1] = Moved1020]_vars

\* u1 has just been admitted on c1, its only admission there, while the
\* other socket is u2's: its sprite is active with the x = 10, y = 20 and
\* the default fields of an earlier session, and in the snapshot c1 is sent.
C25_Witness ==
  /\ ev.kind = "lookup" /\ ev.conn = "c1" /\ ev.arg.id = U1 /\ ev.arg.admitted
  /\ conn["c1"].open /\ conn["c1"].listeners = << U1 >>
  /\ conn["c2"].listeners = << Str("u2") >> /\ conn["c2"].lookups = << >>
  /\ U1 \in DOMAIN sprites /\ sprites[U1] = Moved1020
  /\ inactiveSprites = EmptyMap
  /\ \E n \in Snapshots : sent[n].to = {"c1"} /\ reviver(sent[n].body) = sprites

\* C26. Save content: every Map that saveGameStateToDisk hands to writeMap,
\* at the startup, in a disconnect handler or on SIGINT, has as keys the ids
\* of the active and of the archived Map together, each with its sprite, the
\* active one when the id is in both; the call is under way with that Map,
\* and the two Maps are after it what they were when it was made: as loaded at
\* the startup, as the archiving of the disconnect left them, as they were
\* before SIGINT.
C26_SaveContent ==
  [][\A n \in 1 .. Len(saved') :
       LET m == saved'[n]
       IN /\ DOMAIN m = (DOMAIN sprites') \cup (DOMAIN inactiveSprites')
          /\ \A k \in DOMAIN m :
               m[k] = IF k \in DOMAIN sprites' THEN sprites'[k] ELSE inactiveSprites'[k]
          /\ \E i \in 1 .. Len(writes') : writes'[i].map = m
          /\ ev'.kind \in {"load", "disconnect", "SIGINT"}
          /\ ev'.kind = "load"
               => sprites' = EmptyMap /\ inactiveSprites' = readMap(file).map
          /\ ev'.kind = "SIGINT"
               => sprites' = sprites /\ inactiveSprites' = inactiveSprites
          /\ ev'.kind = "disconnect"
               => <<sprites', inactiveSprites'>>
                    = MoveOwned(sprites, inactiveSprites, ev'.arg[n])]_vars

\* SIGINT has come while the id u1 is in both Maps, with sprites of
\* different owners: the Map being written has the active one.
C26_Witness ==
  /\ ev.kind = "SIGINT"
  /\ Len(saved) = 1
  /\ Str("u1") \in (DOMAIN sprites) \cap (DOMAIN inactiveSprites)
  /\ sprites[Str("u1")].owner = Str("u2")
  /\ inactiveSprites[Str("u1")].owner = Str("u1")
  /\ saved[1][Str("u1")] = sprites[Str("u1")]
  /\ \E i \in 1 .. Len(writes) : writes[i] = Write("SIGINT", Undefined, saved[1])

\* No socket is connected.
NoSocket == \A c \in Conns : ~conn[c].open

\* C27. Startup load: when the process reads the sprites file, a missing
\* file leaves both Maps empty; a file that parses puts every sprite of the
\* file, under its key, in the archived Map and leaves the active Map empty;
\* a file that does not parse makes the process exit with status 1.  No socket
\* is connected before the load is over, nor ever after that exit.
C27_StartupLoad ==
  /\ [][ev'.kind = "load"
          => /\ sprites' = EmptyMap
             /\ file.state = "absent"
                  => inactiveSprites' = EmptyMap /\ proc'.at # "exited"
             /\ file.state = "written"
                  => /\ DOMAIN inactiveSprites' = {e[1] : e \in file.entries}
                     /\ \A e \in file.entries : inactiveSprites'[e[1]] = e[2]
                     /\ proc'.at # "exited"
             /\ file.state = "corrupt" => proc' = Exited(1)]_vars
  /\ []((proc.at \in {"boot", "saving"} \/ proc = Exited(1)) => NoSocket)

\* The process found a file that does not parse and has exited with status
\* 1: no socket was ever connected, and the file is as it was.
C27_Witness ==
  /\ ev.kind = "load"
  /\ file = Corrupt
  /\ proc = Exited(1)
  /\ NoSocket
  /\ sprites = EmptyMap /\ inactiveSprites = EmptyMap
  /\ writes = << >>

\* The sprites of a Map.
Objects(m) == {m[k] : k \in DOMAIN m}

\* C28. Restart round-trip: when the server, restarted after SIGINT and its
\* exit, has loaded, the archived Map holds exactly the sprites that were
\* active or archived at the shutdown, each as it was, and the active Map is
\* empty.
C28_RestartRoundTrip ==
  [][(ev.kind = "restart" /\ ev'.kind = "load")
       => /\ Objects(inactiveSprites') = Objects(sprites) \cup Objects(inactiveSprites)
          /\ sprites' = EmptyMap]_vars

\* C29. Shutdown flush: when the process exits after SIGINT, the writeMap
\* call of the SIGINT handler has completed, and the file holds the Map of
\* the active and archived sprites as they were at the shutdown, whatever
\* writes of earlier disconnects were under way.
C29_ShutdownFlush ==
  [][ev'.kind = "exit"
       => /\ \A n \in 1 .. Len(writes) : writes[n].by # "SIGINT"
          /\ readMap(file').map = spritesToSave(sprites, inactiveSprites)]_vars

\* The file, read back.
Stored == readMap(file).map

C36_ChatAttribution ==
  [][\A c \in Conns, data \in TalkTexts :
       ( /\ ev'.kind = "chat"
         /\ ev'.conn = c
         /\ conn[c].listeners # << >>
         /\ Chat(c, data) )
       => /\ Len(sent') = Len(conn[c].listeners)
          /\ \A n \in 1 .. Len(sent') :
               /\ sent'[n].kind = "chat"
               /\ sent'[n].to = Live(conn) \ {c}
               /\ sent'[n].body.name = NameOf(conn[c].listeners[n])
               /\ sent'[n].body.content = Get(data, "text")
          /\ sprites' = sprites
          /\ inactiveSprites' = inactiveSprites]_vars

\* u1, admitted on c1, has sent a chat message: c2, admitted as u2, is sent
\* it under the name u1, and c1 is not.
C36_Witness ==
  /\ ev.kind = "chat" /\ ev.conn = "c1"
  /\ conn["c1"].listeners = << Str("u1") >>
  /\ conn["c2"].listeners = << Str("u2") >>
  /\ sent = << [to |-> {"c2"}, kind |-> "chat",
                body |-> [name |-> "u1", content |-> Str("hi")]] >>

\* C34. Single admission per connection: a socket has at most one set of
\* listeners, so a spriteData message is handled and its snapshot broadcast
\* once, and a disconnect archives and saves once, however many times the
\* client sent its token.
C34_SingleAdmission ==
  /\ \A c \in Conns : Len(conn[c].listeners) <= 1
  /\ ev.kind = "spriteData"
       => /\ Len(ev.arg.out) <= 1
          /\ Cardinality({n \in Snapshots : ev.conn \notin sent[n].to}) <= 1
  /\ ev.kind \in {"disconnect", "kick"} => Len(saved) <= 1

\* C35. No data to unauthenticated connections: every snapshot and every
\* chat message of an event is sent only to sockets that are admitted.
C35_OnlyAuthenticated ==
  \A n \in 1 .. Len(sent) :
    sent[n].kind \in {"sprites", "chat"} => sent[n].to \subseteq Authenticated

\* The messages of the step that reach the socket c, in order.
Reaching(c) == SelectSeq(sent', LAMBDA m : c \in m.to)

\* C38. Admission ordering: a connected socket that is admitted as A is
\* sent, by that step and in this order, 'welcome', 'identity' with the id A,
\* and a snapshot that holds a sprite under the key A with the id A; and no
\* spriteData message of a socket is handled before the socket was admitted.
C38_AdmissionOrder ==
  /\ [][\A c \in Conns :
          ( /\ ev'.kind = "lookup"
            /\ ev'.conn = c
            /\ ev'.arg.admitted
            /\ conn[c].open )
          => LET got == Reaching(c)
             IN /\ Len(got) = 3
                /\ got[1].kind = "welcome"
                /\ got[2].kind = "identity" /\ got[2].body = [id |-> ev'.arg.id]
                /\ got[3].kind = "sprites"
                /\ ev'.arg.id \in DOMAIN reviver(got[3].body)
                /\ Get(reviver(got[3].body)[ev'.arg.id], "id") = ev'.arg.id]_vars
  /\ [][(ev'.kind = "spriteData" /\ ev'.arg.out # << >>)
          => conn[ev'.conn].listeners # << >>]_vars

\* u1 has just been admitted on c1 while u2 is on c2: c1 has been sent the
\* welcome, its identity and the Map with both sprites, in that order.
C38_Witness ==
  /\ ev.kind = "lookup" /\ ev.conn = "c1" /\ ev.arg.admitted
  /\ conn["c1"].listeners = << Str("u1") >>
  /\ conn["c2"].listeners = << Str("u2") >>
  /\ Len(sent) = 4
  /\ sent[1] = Emit({"c1"}, "c1", "welcome", Undefined)
  /\ sent[2] = Emit({"c1"}, "c1", "identity", [id |-> Str("u1")])
  /\ sent[3] = Emit({"c1"}, "c1", "sprites", Snapshot(sprites))
  /\ DOMAIN sprites = {Str("u1"), Str("u2")}

\* The identities whose sessions the step admits or ends.
Acting ==
  IF ev'.kind = "lookup" /\ ev'.arg.admitted THEN {ev'.arg.id}
  ELSE IF ev'.kind \in {"disconnect", "kick"}
         THEN {ev'.arg[n] : n \in 1 .. Len(ev'.arg)}
         ELSE {}

\* Every sprite of the Map that none of the given identities owns is in the
\* Map afterwards, with the same fields.
Kept(before, after, ids) ==
  \A k \in DOMAIN before :
    Get(before[k], "owner") \notin ids
      => k \in DOMAIN after /\ after[k] = before[k]

\* C39. Frame of the admission and of the disconnect: a step that admits a
\* socket as A, or that ends the sessions of A, leaves every sprite that
\* another identity owns in its Map, active or archived, with the same fields.
C39_Frame ==
  [][Acting # {}
       => /\ Kept(sprites, sprites', Acting)
          /\ Kept(inactiveSprites, inactiveSprites', Acting)]_vars

\* C32. Persist on Disconnect: when the sessions of A end, an active sprite
\* of A whose pod is true stays in the active Map as it is, and every other
\* active sprite of A is moved to the archived Map.
C32_PersistOnDisconnect ==
  [][ev'.kind \in {"disconnect", "kick"}
       => \A k \in DOMAIN sprites :
            Get(sprites[k], "owner") \in Acting
              => IF Get(sprites[k], "pod") = True
                   THEN k \in DOMAIN sprites' /\ sprites'[k] = sprites[k]
                   ELSE /\ k \notin DOMAIN sprites'
                        /\ k \in DOMAIN inactiveSprites'
                        /\ inactiveSprites'[k] = sprites[k]]_vars

\* What the sign-up accepts: a name of 2 to 72 characters and a password of
\* 8 to 72 characters that is not the name.
IsText(v, lo, hi) == v.t = "string" /\ Len(v.chars) \in lo .. hi
Acceptable(name, password) ==
  /\ IsText(name, 2, 72)
  /\ IsText(password, 8, 72)
  /\ name # password

\* C31. Account creation validation: a sign-up is answered with success only
\* if the name has 2 to 72 characters, the password 8 to 72, the two differ
\* and no row of Users has the name when it is answered; a sign-up answered
\* with an error has no row in Users.
C31_SignUpValidation ==
  [][\A r \in Requests :
       /\ (signups[r].status # 200 /\ signups'[r].status = 200)
            => /\ Acceptable(signups'[r].name, signups'[r].password)
               /\ \A u \in users : u.name # SqlText(signups'[r].name)
       /\ signups'[r].status \in {400, 500}
            => \A u \in users' : u.id # r]_vars

\* C37. Account-name uniqueness under concurrency: no two rows of Users have
\* the same name, and no two sign-ups with the same name were both answered
\* with success.
C37_UniqueNames ==
  /\ \A u, v \in users : u.name = v.name => u = v
  /\ \A r, q \in Requests :
       ( /\ signups[r].status = 200
         /\ signups[q].status = 200
         /\ SqlText(signups[r].name) = SqlText(signups[q].name) )
       => r = q

====
